---- MODULE Spec2Model ----
(***************************************************************************)
(* cargo-sort-ng: the per-manifest pipeline check_toml and the driver loop  *)
(* of _main / main (src/src/main.rs).                                       *)
(*                                                                         *)
(* A manifest text is a sequence of tokens.  A key token ("a", "b", ...)   *)
(* stands for one `key = value` entry, "sp" for superfluous white space    *)
(* that canonical formatting removes, "cr" and "lf" for the bytes \r and   *)
(* \n, and "bad" for a construct the TOML parser rejects.                   *)
(***************************************************************************)
EXTENDS Integers, Sequences, FiniteSets

\* ------------------------------------------------------------------ bounds
MaxLines == 2
MaxPaths == 2

\* ------------------------------------------------------------ text helpers
KeyNames == <<"a", "b", "c", "d">>

Keys == {KeyNames[i] : i \in 1..MaxLines}

AllKeys == {KeyNames[i] : i \in 1..Len(KeyNames)}

KeyRank(k) == CHOOSE i \in 1..Len(KeyNames) : KeyNames[i] = k

Missing == <<"<no file>">>

BadText == <<"bad", "lf">>

\* str::contains("\r\n")
ContainsCrlf(s) == \E i \in 1..(Len(s) - 1) : s[i] = "cr" /\ s[i + 1] = "lf"

\* str::replace('\n', "\r\n")
RECURSIVE ReplaceLf(_)
ReplaceLf(s) ==
    IF s = <<>> THEN <<>>
    ELSE IF Head(s) = "lf" THEN <<"cr", "lf">> \o ReplaceLf(Tail(s))
    ELSE <<Head(s)>> \o ReplaceLf(Tail(s))

\* ---------------------------------------------------------- document model
\* str::parse::<DocumentMut>: one entry per line, its decoration kept.
RECURSIVE ParseAt(_, _, _)
ParseAt(s, i, acc) ==
    IF i > Len(s) THEN [ok |-> TRUE, doc |-> acc]
    ELSE IF s[i] \notin AllKeys THEN [ok |-> FALSE, doc |-> <<>>]
    ELSE LET loose == i + 1 <= Len(s) /\ s[i + 1] = "sp"
             j     == IF loose THEN i + 2 ELSE i + 1
         IN  IF j <= Len(s) /\ s[j] = "lf"
             THEN ParseAt(s, j + 1,
                          Append(acc, [key |-> s[i], loose |-> loose, eol |-> "lf"]))
             ELSE IF j + 1 <= Len(s) /\ s[j] = "cr" /\ s[j + 1] = "lf"
             THEN ParseAt(s, j + 2,
                          Append(acc, [key |-> s[i], loose |-> loose, eol |-> "crlf"]))
             ELSE [ok |-> FALSE, doc |-> <<>>]

Parse(s) == ParseAt(s, 1, <<>>)

EntryText(e) ==
    <<e.key>> \o (IF e.loose THEN <<"sp">> ELSE <<>>)
              \o (IF e.eol = "crlf" THEN <<"cr", "lf">> ELSE <<"lf">>)

\* DocumentMut::to_string
RECURSIVE to_string(_)
to_string(doc) ==
    IF doc = <<>> THEN <<>> ELSE EntryText(Head(doc)) \o to_string(Tail(doc))

\* ------------------------------------------------------------- sort engine
\* e goes behind every entry whose key is not greater: a stable insertion.
RECURSIVE InsertEntry(_, _)
InsertEntry(e, doc) ==
    IF doc = <<>> THEN <<e>>
    ELSE IF KeyRank(Head(doc).key) <= KeyRank(e.key)
         THEN <<Head(doc)>> \o InsertEntry(e, Tail(doc))
         ELSE <<e>> \o doc

RECURSIVE SortEntries(_)
SortEntries(doc) ==
    IF doc = <<>> THEN <<>>
    ELSE InsertEntry(doc[Len(doc)], SortEntries(SubSeq(doc, 1, Len(doc) - 1)))

\* sort::sort_toml: parses the text (a malformed text aborts the process,
\* the call has no error result) and sorts the entries of the table.
sort_toml(toml_raw) == SortEntries(Parse(toml_raw).doc)

\* ----------------------------------------------------------- format engine
\* fmt::fmt_toml: canonical spacing, line endings as config.crlf says.
fmt_toml(doc, crlf) ==
    [i \in 1..Len(doc) |->
        [key |-> doc[i].key, loose |-> FALSE,
         eol |-> IF crlf THEN "crlf" ELSE "lf"]]

\* -------------------------------------------------------------- check_toml
\* The flags clap accepts: --print conflicts with --check, --check-format
\* requires --check.
CliSet ==
    {c \in [check : BOOLEAN, print : BOOLEAN,
            no_format : BOOLEAN, check_format : BOOLEAN] :
        ~(c.print /\ c.check) /\ (c.check_format => c.check)}

\* Config.crlf: Option<bool>
CrlfOptions == {"unset", "on", "off"}

\* The write of one check_toml call that the environment fails, if any: the
\* "Checking" banner, an error line of check mode, print!, fs::write (refused
\* on create, or failed after the truncation) or the "Finished" line.  Every
\* failed write ends the call, so one call meets at most one.
Faults == {"none", "banner", "red1", "red2", "prn", "denied", "short", "fin"}

\* config.crlf after `if config.crlf.is_none() { config.crlf = Some(crlf) }`
ResolveCrlf(crlfOpt, toml_raw) ==
    IF crlfOpt = "unset" THEN ContainsCrlf(toml_raw) ELSE crlfOpt = "on"

ApplyFormat_IgnoresNoFormat(c) == TRUE

\* `if !cli.no_format || cli.check_format`
ApplyFormat(c) == ~c.no_format \/ c.check_format

\* The sorted document's text, the text after the optional formatting and
\* the verdict origin_already_formatted.
Transform(toml_raw, c, crlf) ==
    LET sorted_doc == sort_toml(toml_raw)
        before_fmt == to_string(sorted_doc)
    IN  IF ApplyFormat(c)
        THEN LET final_str == to_string(fmt_toml(sorted_doc, crlf))
             IN  [before_fmt |-> before_fmt, final_str |-> final_str,
                  origin_already_formatted |-> (before_fmt = final_str)]
        ELSE [before_fmt |-> before_fmt, final_str |-> before_fmt,
              origin_already_formatted |-> TRUE]

ConvertEol_Unguarded(crlf, final_str) ==
    IF crlf THEN ReplaceLf(final_str) ELSE final_str

\* `if config.crlf.unwrap_or(DEF_CRLF) && !final_str.contains("\r\n")`
ConvertEol(crlf, final_str) ==
    IF crlf /\ ~ContainsCrlf(final_str) THEN ReplaceLf(final_str) ELSE final_str

\* final_str as check_toml has it when it reaches `if cli.print`.
FinalText(toml_raw, c, crlfOpt) ==
    LET crlf == ResolveCrlf(crlfOpt, toml_raw)
    IN  ConvertEol(crlf, Transform(toml_raw, c, crlf).final_str)

\* `let origin_already_sorted = toml_raw == final_str;`
OriginAlreadySorted(toml_raw, final_str) == toml_raw = final_str

Mode_CheckFallsThrough(c) == IF c.print THEN "print" ELSE "fix"

\* What check_toml does with final_str: `if cli.print { ... return }`,
\* `if cli.check { ... return }`, else the write branch.
Mode(c) == IF c.print THEN "print" ELSE IF c.check THEN "check" ELSE "fix"

\* `return Ok(origin_already_sorted && origin_already_formatted);`
CheckVerdict(sorted, formatted) == sorted /\ formatted

ShouldWrite_Always(sorted) == TRUE

\* `if !origin_already_sorted { std::fs::write(&path, &final_str)?; ... }`
ShouldWrite(sorted) == ~sorted

NoCall ==
    [result |-> "none", computed |-> FALSE, judged |-> FALSE,
     toml_raw |-> <<>>, before_fmt |-> <<>>, final_str |-> <<>>,
     fmt_applied |-> FALSE, sorted |-> FALSE, already_formatted |-> FALSE,
     printed |-> FALSE, write |-> "none", written |-> Missing,
     content |-> Missing]

\* One call of check_toml on a path of the given kind whose manifest holds
\* `file`: the result, the values it computed and the manifest afterwards.
check_toml(kind, file, c, crlfOpt, fault) ==
    LET early(res) == [NoCall EXCEPT !.result = res, !.content = file]
    IN
    IF kind = "bare" THEN early("Err")              \* "No crate folder found"
    ELSE IF fault = "banner" THEN early("Err")            \* write_green(...)?
    ELSE IF file = Missing THEN early("Err")        \* "No file found at"
    ELSE IF ~Parse(file).ok THEN early("Panic")     \* sort_toml
    ELSE
    LET crlf      == ResolveCrlf(crlfOpt, file)
        t         == Transform(file, c, crlf)
        final_str == ConvertEol(crlf, t.final_str)
        sorted    == OriginAlreadySorted(file, final_str)
        base      == [NoCall EXCEPT !.computed = TRUE, !.toml_raw = file,
                         !.before_fmt = t.before_fmt, !.final_str = final_str,
                         !.fmt_applied = ApplyFormat(c),
                         !.already_formatted = t.origin_already_formatted,
                         !.content = file]
        judged    == [base EXCEPT !.judged = TRUE, !.sorted = sorted]
    IN
    CASE Mode(c) = "print" ->
           IF fault = "prn" THEN [base EXCEPT !.result = "Panic"]  \* print! panics
           ELSE [base EXCEPT !.result = "OkTrue", !.printed = TRUE]
      [] Mode(c) = "check" ->
           IF ~sorted /\ fault = "red1" THEN [judged EXCEPT !.result = "Err"]
           ELSE IF ~t.origin_already_formatted /\ fault = "red2"
           THEN [judged EXCEPT !.result = "Err"]
           ELSE [judged EXCEPT !.result =
                    IF CheckVerdict(sorted, t.origin_already_formatted)
                    THEN "OkTrue" ELSE "OkFalse"]
      [] OTHER ->
           IF ShouldWrite(sorted)
           THEN IF fault = "denied"
                THEN [judged EXCEPT !.result = "Err", !.write = "denied",
                                     !.written = final_str]
                ELSE IF fault = "short"
                THEN [judged EXCEPT !.result = "Err", !.write = "short",
                                     !.written = final_str, !.content = <<>>]
                ELSE [judged EXCEPT
                         !.result = IF fault = "fin" THEN "Err" ELSE "OkTrue",
                         !.write = "ok", !.written = final_str,
                         !.content = final_str]
           ELSE [judged EXCEPT
                   !.result = IF fault = "fin" THEN "Err" ELSE "OkTrue"]

\* ------------------------------------------------------------------ inputs
Eols == {"lf", "crlf"}

Entries == [key : Keys, loose : BOOLEAN, eol : Eols]

DistinctKeys(doc) == \A i, j \in 1..Len(doc) : i # j => doc[i].key # doc[j].key

\* Every well-formed manifest of at most MaxLines entries, as text.
Manifests ==
    {to_string(doc) :
        doc \in {d \in UNION {[1..n -> Entries] : n \in 0..MaxLines} :
                    DistinctKeys(d)}}

\* A run over one path sees any manifest, a malformed one or none.
SingleChoices ==
    {<<"crate", f>> : f \in Manifests \cup {BadText, Missing}}
        \cup {<<"bare", Missing>>}

\* A run over several paths draws each from a few representative manifests:
\* sorted, unsorted, malformed and absent.
ManyChoices ==
    {<<"crate", f>> : f \in {<<"a", "lf">>, <<"b", "lf", "a", "lf">>,
                              BadText, Missing}}

\* ------------------------------------------------------------------- state
VARIABLES
    cli,        \* the parsed flags
    crlfOpt,    \* Config.crlf
    matches,    \* filtered_matches: each path is "crate" (a crate folder, or a
                \* file inside one) or "bare" (a file name without a folder)
    files,      \* the manifest each path leads to
    idx,        \* how many paths the loop of _main has taken
    flag,       \* _main's flag
    outcomes,   \* what check_toml returned, path by path
    last,       \* the latest call of check_toml
    pc,         \* "loop", "returned" (from _main), "exited", "panicked"
    ret,        \* _main's result: "none", "Ok", "Err"
    exit        \* the exit status, -1 while the process runs

vars == <<cli, crlfOpt, matches, files, idx, flag, outcomes, last, pc, ret, exit>>

Start(choice) ==
    /\ cli \in CliSet
    /\ crlfOpt \in CrlfOptions
    /\ matches = [i \in 1..Len(choice) |-> choice[i][1]]
    /\ files = [i \in 1..Len(choice) |-> choice[i][2]]
    /\ idx = 0
    /\ flag = TRUE
    /\ outcomes = <<>>
    /\ last = NoCall
    /\ pc = "loop"
    /\ ret = "none"
    /\ exit = -1

\* The state at `let mut flag = true;`
Init ==
    \/ \E ch \in [1..1 -> SingleChoices] : Start(ch)
    \/ \E n \in 2..MaxPaths : \E ch \in [1..n -> ManyChoices] : Start(ch)

NextFlag_LastWins(f, result) == result = "OkTrue"

\* The match on check_toml's result: Ok(true) keeps flag, Ok(false) and
\* Err(e) clear it.
NextFlag(f, result) == IF result = "OkTrue" THEN f ELSE FALSE

\* One turn of `for sorted in filtered_matches.iter().map(check_toml)`.
LoopStep ==
    /\ pc = "loop"
    /\ idx < Len(matches)
    /\ \E fault \in Faults, errOk \in BOOLEAN :
        LET p == idx + 1
            r == check_toml(matches[p], files[p], cli, crlfOpt, fault)
        IN  /\ last' = r
            /\ files' = [files EXCEPT ![p] = r.content]
            /\ idx' = p
            /\ CASE r.result = "Panic" ->
                      /\ pc' = "panicked"
                      /\ exit' = 101
                      /\ UNCHANGED <<flag, outcomes, ret>>
                 [] r.result \in {"OkTrue", "OkFalse"} ->
                      /\ outcomes' = Append(outcomes, r.result)
                      /\ flag' = NextFlag(flag, r.result)
                      /\ UNCHANGED <<pc, ret, exit>>
                 [] OTHER ->
                      /\ outcomes' = Append(outcomes, "Err")
                      /\ IF errOk                   \* write_red("error: ", e)?
                         THEN /\ flag' = NextFlag(flag, r.result)
                              /\ UNCHANGED <<pc, ret>>
                         ELSE /\ pc' = "returned"
                              /\ ret' = "Err"
                              /\ UNCHANGED flag
                      /\ UNCHANGED exit
    /\ UNCHANGED <<cli, crlfOpt, matches>>

\* The end of _main: `if !flag { return Err(...) } Ok(())`.
Finish ==
    /\ pc = "loop"
    /\ idx = Len(matches)
    /\ pc' = "returned"
    /\ ret' = IF flag THEN "Ok" ELSE "Err"
    /\ UNCHANGED <<cli, crlfOpt, matches, files, idx, flag, outcomes, last, exit>>

\* main: `_main().unwrap_or_else(|e| { write_red(..).unwrap(); exit(1) })`.
Exit ==
    /\ pc = "returned"
    /\ IF ret = "Ok"
       THEN pc' = "exited" /\ exit' = 0
       ELSE \E errOk \in BOOLEAN :
               IF errOk THEN pc' = "exited" /\ exit' = 1
               ELSE pc' = "panicked" /\ exit' = 101
    /\ UNCHANGED <<cli, crlfOpt, matches, files, idx, flag, outcomes, last, ret>>

Next == LoopStep \/ Finish \/ Exit

Spec == Init /\ [][Next]_vars

TypeOK ==
    /\ cli \in CliSet
    /\ crlfOpt \in CrlfOptions
    /\ idx \in 0..Len(matches)
    /\ Len(outcomes) <= idx
    /\ flag \in BOOLEAN
    /\ pc \in {"loop", "returned", "exited", "panicked"}
    /\ ret \in {"none", "Ok", "Err"}
    /\ exit \in {-1, 0, 1, 101}

\* ------------------------------------------------------------------ claims
\* Every line ending of s is \r\n.
AllCrlf(s) == \A i \in 1..Len(s) : s[i] = "lf" => (i > 1 /\ s[i - 1] = "cr")

AnyFailed == \E i \in 1..Len(outcomes) : outcomes[i] \in {"Err", "OkFalse"}

\* C1: when formatting is enabled and the sorted document's text before
\* formatting equals the original while the formatted text differs, check_toml
\* finds already_sorted = TRUE and already_formatted = FALSE.
C1_CheckModeIndependence ==
    (/\ last.judged
     /\ last.fmt_applied
     /\ last.before_fmt = last.toml_raw
     /\ ~last.already_formatted)
        => (last.sorted /\ ~last.already_formatted)

\* C2: in check mode without --check-format a manifest that is sorted but not
\* canonically formatted passes: check_toml returns Ok(true).
C2_UnformattedPassesCheck ==
    (/\ cli.check
     /\ ~cli.check_format
     /\ last.judged
     /\ last.before_fmt = last.toml_raw)
        => last.result = "OkTrue"

\* C3: with Config.crlf unset and an input that holds a \r\n, every line
\* ending of the final text is \r\n, with or without formatting.
C3_CrlfDetected ==
    (/\ last.computed
     /\ crlfOpt = "unset"
     /\ ContainsCrlf(last.toml_raw))
        => AllCrlf(last.final_str)

\* C4: with Config.crlf set, the final text uses that convention whatever the
\* input: all \r\n when it is true, no \r\n when it is false.
C4_CrlfForced ==
    last.computed =>
        /\ (crlfOpt = "on" => AllCrlf(last.final_str))
        /\ (crlfOpt = "off" => ~ContainsCrlf(last.final_str))

\* C5: when the run is over, check_toml has been called on every path: no
\* failure on a path keeps the later paths from being processed.
C5_EveryPathAttempted ==
    pc \in {"returned", "exited", "panicked"} => idx = Len(matches)

C7_NonMutating == [][(cli.check \/ cli.print) => files' = files]_vars

C7_Witness ==
    /\ cli.check \/ cli.print
    /\ last.computed
    /\ last.final_str # last.toml_raw

C9_FixThenCheck ==
    last.write = "ok" =>
        LET again   == check_toml("crate", last.content, cli, crlfOpt, "none")
            checked == check_toml("crate", last.content,
                                  [cli EXCEPT !.check = TRUE], crlfOpt, "none")
        IN  /\ again.result = "OkTrue"
            /\ again.final_str = last.content
            /\ again.write = "none"
            /\ checked.judged /\ checked.sorted

C9_Witness ==
    /\ last.write = "ok"
    /\ last.before_fmt # last.toml_raw
    /\ last.final_str # last.before_fmt

\* C10: a default-mode call that has its final text hands it to fs::write
\* exactly when it differs from the original; the file then holds that final
\* text, and a file whose final text equals the original is left as it was.
C10_WriteIffChanged ==
    (Mode(cli) = "fix" /\ last.judged) =>
        /\ last.write # "none" <=> last.final_str # last.toml_raw
        /\ last.write # "none" => last.written = last.final_str
        /\ last.write = "ok" => last.content = last.final_str
        /\ last.write = "none" => last.content = last.toml_raw

C10_Witness ==
    /\ Mode(cli) = "fix"
    /\ last.write = "ok"
    /\ last.content = last.final_str
    /\ last.final_str # last.toml_raw

====
